---- MODULE Spec2Model ----
(***************************************************************************)
(* A model of importer.py: the retry wrapper handle_spotify_exception, the *)
(* item resolver Importer._import_item, the batch ingestion pipeline       *)
(* Importer._add_items_to_spotify with its category drivers, and the       *)
(* program from its command line to its report: the pre-flight of the      *)
(* arguments, Importer.__init__, import_all, import_playlists and          *)
(* import_from_json.                                                       *)
(*                                                                         *)
(* Text is a sequence of one-character strings, so that joining, slicing   *)
(* and str.replace are computed as Python computes them.                   *)
(***************************************************************************)
EXTENDS Integers, Sequences, FiniteSets, TLC

VARIABLES
    w,              \* handle_spotify_exception.wrapper: the frame of one wrapped call
    r_item,         \* _import_item: the argument item
    r_strict,       \* _import_item: self._strict_search
    r_plans,        \* what the stubbed API does with the first and the second search
    r_out,          \* _import_item: what the call did (searches issued, result)
    category,       \* the driver that runs: "likes", "playlists", "albums", "artists"
    strict_search,  \* Importer._strict_search
    stub,           \* how the stubbed search answers: "any", "hit" or "catalog"
    source,         \* the collection the source API returns to the driver
    items,          \* _add_items_to_spotify: items, after items.reverse()
    i,              \* _add_items_to_spotify: position of the for loop over items
    spotify_items,  \* _add_items_to_spotify: the accumulator of resolved ids
    not_imported,   \* Importer.not_imported: section name -> unmatched names
    resolved,       \* log of the _import_item calls of the run: position, outcome
    save_calls,     \* log of the chunks save_items_callback was invoked with
    saved,          \* the chunks the destination accepted, in order
    pc,             \* "start", "resolve", "save", "done" or "failed"
    raised,         \* the exception that left _add_items_to_spotify, or "none"
    arguments,      \* the parsed command line: token, json_path, ignore
    library,        \* what the source API and the JSON file hold
    main,           \* the program: where it is, the Importer's fields, its report
    playlist,       \* import_playlists: the playlist at hand, spotify_playlist_id
    json_not_imported   \* import_from_json: its local list not_imported

wvars == <<w>>
rvars == <<r_item, r_strict, r_plans, r_out>>
pvars == <<category, strict_search, stub, source, items, i, spotify_items,
           not_imported, resolved, save_calls, saved, pc, raised>>
mvars == <<arguments, library, main, playlist, json_not_imported>>
vars == <<w, r_item, r_strict, r_plans, r_out, category, strict_search, stub,
          source, items, i, spotify_items, not_imported, resolved, save_calls, saved, pc,
          raised, arguments, library, main, playlist, json_not_imported>>

(***************************************************************************)
(* Program constants.                                                      *)
(***************************************************************************)
MAX_REQUEST_RETRIES == 5
ChunkSize == 50
NameLimit == 100

(***************************************************************************)
(* Bounds of the model.                                                    *)
(***************************************************************************)
\* invocations of the wrapped function followed within one wrapped call
MaxCalls == 8
\* length of the collections whose items fail in every possible way
MaxLen == 2
\* length of the longest collection (its searches all answer)
MaxLong == 130
\* length of the long title
LongTitle == 150
\* length of the list of categories to ignore
MaxIgnore == 2
\* number of playlists of the source account
MaxPlaylists == 2

(***************************************************************************)
(* Text.                                                                   *)
(***************************************************************************)
Min(a, b) == IF a < b THEN a ELSE b

\* s[:n]
Take(s, n) == SubSeq(s, 1, Min(n, Len(s)))

\* c * n
Repeat(c, n) == [k \in 1..n |-> c]

RECURSIVE Join(_, _)
\* sep.join(parts)
Join(sep, parts) ==
    IF parts = <<>> THEN <<>>
    ELSE IF Len(parts) = 1 THEN parts[1]
    ELSE parts[1] \o sep \o Join(sep, Tail(parts))

RECURSIVE CopyWithout(_, _, _)
\* s from position from on, without the two characters at each position of starts
CopyWithout(s, from, starts) ==
    IF starts = {} THEN SubSeq(s, from, Len(s))
    ELSE LET p == CHOOSE x \in starts : \A y \in starts : x <= y
         IN  SubSeq(s, from, p - 1) \o CopyWithout(s, p + 2, starts \ {p})

\* s.replace('- ', ''): scanning from the left, every occurrence is removed
\* (two occurrences of '- ' never overlap, so each place where it stands is one)
ReplaceDashSpace(s) ==
    CopyWithout(s, 1, { p \in 1..(Len(s) - 1) : s[p] = "-" /\ s[p + 1] = " " })

Digits == <<"0", "1", "2", "3", "4", "5", "6", "7", "8", "9">>

RECURSIVE Str(_)
\* str(n) of a natural number
Str(n) == IF n < 10 THEN <<Digits[n + 1]>> ELSE Str(n \div 10) \o <<Digits[(n % 10) + 1]>>

DigitValue(c) == (CHOOSE d \in 1..10 : Digits[d] = c) - 1

RECURSIVE IntOf(_)
\* int(s) of a string of decimal digits
IntOf(s) ==
    IF Len(s) = 1 THEN DigitValue(s[1])
    ELSE 10 * IntOf(SubSeq(s, 1, Len(s) - 1)) + DigitValue(s[Len(s)])

(***************************************************************************)
(* handle_spotify_exception.                                               *)
(*                                                                         *)
(* What one invocation of the wrapped function does: it returns a value,   *)
(* raises SpotifyException (http_status, headers) or raises ReadTimeout.   *)
(***************************************************************************)
NoHeaders == [h \in {} |-> <<>>]

RetryAfter(text) == [h \in {"retry-after"} |-> text]

Return(v) == [kind |-> "return", http_status |-> 200, headers |-> NoHeaders, value |-> v]

SpotifyException(status, headers) ==
    [kind |-> "SpotifyException", http_status |-> status, headers |-> headers,
     value |-> <<>>]

ReadTimeout == [kind |-> "ReadTimeout", http_status |-> 0, headers |-> NoHeaders,
                value |-> <<>>]

NoException == [kind |-> "none", http_status |-> 0, headers |-> NoHeaders, value |-> <<>>]

\* The frame of wrapper(): retry = 1 before the loop. calls, sleeps and served
\* record what the call did: invocations of func, the sleep() durations and
\* the outcomes of the invocations, in order.
NewCall ==
    [retry |-> 1, status |-> "running", value |-> <<>>, exc |-> NoException,
     calls |-> 0, sleeps |-> <<>>, served |-> <<>>]

\* server errors retried like a rate limit
NotRateLimit_ServerErrors(exception) == exception.http_status \notin {429, 500}

\* exception.http_status != 429
NotRateLimit(exception) == exception.http_status # 429

\* the sleep without the extra second
SleepSeconds_Exact(exception) == IntOf(exception.headers["retry-after"])

\* int(exception.headers['retry-after']) + 1
SleepSeconds(exception) == IntOf(exception.headers["retry-after"]) + 1

\* the cap compared with >=
RetriesExhausted_Early(retry) == retry >= MAX_REQUEST_RETRIES

\* retry > MAX_REQUEST_RETRIES
RetriesExhausted(retry) == retry > MAX_REQUEST_RETRIES

\* a pass of the loop in which a rate limit gives the timeout budget back
WrapperStep_RateLimitResets(f, resp) ==
    LET g == [f EXCEPT !.calls = @ + 1, !.served = Append(@, resp)] IN
    CASE resp.kind = "return" ->
            [g EXCEPT !.status = "returned", !.value = resp.value]
      [] resp.kind = "SpotifyException" ->
            IF NotRateLimit(resp)
            THEN [g EXCEPT !.status = "raised", !.exc = resp]
            ELSE [g EXCEPT !.retry = 1]
      [] resp.kind = "ReadTimeout" ->
            IF RetriesExhausted(g.retry)
            THEN [g EXCEPT !.status = "raised", !.exc = resp]
            ELSE [g EXCEPT !.retry = @ + 1]

\* One pass of the while loop, func answering with resp.
WrapperStep(f, resp) ==
    LET g == [f EXCEPT !.calls = @ + 1, !.served = Append(@, resp)] IN
    CASE resp.kind = "return" ->
            [g EXCEPT !.status = "returned", !.value = resp.value]
      [] resp.kind = "SpotifyException" ->
            IF NotRateLimit(resp)
            THEN [g EXCEPT !.status = "raised", !.exc = resp]
            ELSE IF "retry-after" \in DOMAIN resp.headers
                 THEN [g EXCEPT !.sleeps = Append(@, SleepSeconds(resp))]
                 ELSE g
      [] resp.kind = "ReadTimeout" ->
            IF RetriesExhausted(g.retry)
            THEN [g EXCEPT !.status = "raised", !.exc = resp]
            ELSE [g EXCEPT !.retry = @ + 1]

RECURSIVE RunWrapper(_, _)
\* The wrapped call run to its end against the answers of script, in order.
\* The frame is still "running" when the script ends before the call does.
RunWrapper(f, script) ==
    IF script = <<>> \/ f.status # "running" THEN f
    ELSE RunWrapper(WrapperStep(f, Head(script)), Tail(script))

\* The answers the stubbed function of the wrapper's own specification gives.
WrapperAnswers ==
    { Return(<<"ok">>), ReadTimeout,
      SpotifyException(429, NoHeaders),
      SpotifyException(429, RetryAfter(<<"0">>)),
      SpotifyException(429, RetryAfter(<<"1", "2">>)),
      SpotifyException(404, NoHeaders),
      SpotifyException(500, RetryAfter(<<"3">>)) }

\* wrapper(*args, **kwargs) is entered: a new frame.
WrapperCall ==
    /\ w.status # "running"
    /\ w' = NewCall
    /\ UNCHANGED <<rvars, pvars, mvars>>

\* func(*args, **kwargs) is invoked once more and answers.
WrapperInvoke ==
    /\ w.status = "running"
    /\ w.calls < MaxCalls
    /\ \E resp \in WrapperAnswers : w' = WrapperStep(w, resp)
    /\ UNCHANGED <<rvars, pvars, mvars>>

(***************************************************************************)
(* Source items.  A Track or an Album has artists (their names, in credit  *)
(* order), a title and the availability flag; an Artist has a name and the *)
(* flag and no title; a query of the JSON file is a str.                   *)
(***************************************************************************)
Track(artists, title, available) ==
    [kind |-> "track", artists |-> artists, title |-> title, available |-> available]

Album(artists, title, available) ==
    [kind |-> "album", artists |-> artists, title |-> title, available |-> available]

Artist(name, available) == [kind |-> "artist", name |-> name, available |-> available]

RawQuery(text) == [kind |-> "str", text |-> text]

\* isinstance(item, str)
IsStr(item) == item.kind = "str"

\* isinstance(item, Artist)
IsArtist(item) == item.kind = "artist"

(***************************************************************************)
(* The destination catalog's search, stubbed.  A plan is what the API does *)
(* with one wrapped search call: the failures it answers first, then the   *)
(* number of results it returns.                                           *)
(***************************************************************************)
Plan(faults, hits) == [faults |-> faults, hits |-> hits]

NoId == [type |-> "", query |-> <<>>, rank |-> 0]

\* The id of the k-th result of a search: ids differ by kind, query and rank.
SpotifyId(type_, query, k) == [type |-> type_, query |-> query, rank |-> k]

\* search(query, type=type_)[f'{type_}s']['items'] when the API returns n results
FoundItems(type_, query, n) == [k \in 1..n |-> [id |-> SpotifyId(type_, query, k)]]

\* handle_spotify_exception(self.spotify_client.search)(query, type=type_)
SearchCall(query, type_, plan) ==
    RunWrapper(NewCall, plan.faults \o <<Return(FoundItems(type_, query, plan.hits))>>)

(***************************************************************************)
(* Importer._import_item.                                                  *)
(***************************************************************************)
\* f'{", ".join([artist.name for artist in item.artists])} - {item.title}'
DisplayName(item) == Join(<<",", " ">>, item.artists) \o <<" ", "-", " ">> \o item.title

\* item_name of an object from Yandex, before the length workaround
ObjectName(item) == IF IsArtist(item) THEN item.name ELSE DisplayName(item)

\* the name kept whole, whatever its length
Trimmed_Never(item_name) == item_name

\* if len(item_name) > 100: item_name = item_name[:100]
Trimmed(item_name) ==
    IF Len(item_name) > NameLimit THEN Take(item_name, NameLimit) ELSE item_name

\* item_name as _import_item reports it
ItemName(item) == IF IsStr(item) THEN item.text ELSE Trimmed(ObjectName(item))

\* the query built from the name as it was before the length workaround
FirstQuery_Untrimmed(item) ==
    IF IsStr(item) THEN item.text ELSE ReplaceDashSpace(ObjectName(item))

\* the query of the first search
FirstQuery(item) == IF IsStr(item) THEN item.text ELSE ReplaceDashSpace(ItemName(item))

\* type_
TypeOf(item) == IF IsStr(item) THEN "track" ELSE item.kind

\* artists
ArtistsOf(item) == IF IsStr(item) THEN <<>> ELSE IF IsArtist(item) THEN <<>> ELSE item.artists

\* f'{artists[0].name} {item.title}'
FallbackQuery(item) == item.artists[1] \o <<" ">> \o item.title

\* the fallback tried whether or not the first search found something
WantsFallback_IgnoresFound(item, strict, found_items) ==
    /\ ~strict
    /\ ~IsArtist(item)
    /\ Len(ArtistsOf(item)) > 1

\* the fallback tried for an item with a single artist too
WantsFallback_AnyArtist(item, strict, found_items) ==
    /\ ~strict
    /\ ~IsArtist(item)
    /\ Len(found_items) = 0
    /\ Len(ArtistsOf(item)) >= 1

\* not self._strict_search and not isinstance(item, Artist)
\*     and not len(found_items) and len(artists) > 1
WantsFallback(item, strict, found_items) ==
    /\ ~strict
    /\ ~IsArtist(item)
    /\ Len(found_items) = 0
    /\ Len(ArtistsOf(item)) > 1

Returned(id, item_name, searches) ==
    [status |-> "returned", id |-> id, exc |-> "none", item_name |-> item_name,
     searches |-> searches]

Raised(exc, item_name, searches) ==
    [status |-> "raised", id |-> NoId, exc |-> exc, item_name |-> item_name,
     searches |-> searches]

\* if not len(found_items): raise NotFoundException(item_name)
\* return found_items[0]['id']
Conclude(found_items, item_name, searches) ==
    IF Len(found_items) = 0
    THEN Raised("NotFoundException", item_name, searches)
    ELSE Returned(found_items[1].id, item_name, searches)

\* _import_item(item), the API following plan1 for the first search and plan2
\* for the second, if one is issued.  searches lists the queries searched.
ImportItem(item, strict, plan1, plan2) ==
    LET type_ == TypeOf(item)
        item_name == ItemName(item)
        query == FirstQuery(item)
        first == SearchCall(query, type_, plan1)
        s1 == <<[query |-> query, type |-> type_]>>
    IN  IF first.status = "raised" THEN Raised(first.exc.kind, item_name, s1)
        ELSE IF WantsFallback(item, strict, first.value)
        THEN LET query2 == FallbackQuery(item)
                 second == SearchCall(query2, type_, plan2)
                 s2 == Append(s1, [query |-> query2, type |-> type_])
             IN  IF second.status = "raised" THEN Raised(second.exc.kind, item_name, s2)
                 ELSE Conclude(second.value, item_name, s2)
        ELSE Conclude(first.value, item_name, s1)

\* The failures the stubbed API may answer a search or a save with before it
\* answers for good: none, absorbed ones, an API error, timeouts beyond the cap.
ApiFaults ==
    { <<>>,
      <<SpotifyException(429, RetryAfter(<<"1">>))>>,
      <<ReadTimeout>>,
      <<SpotifyException(500, NoHeaders)>>,
      Repeat(ReadTimeout, MAX_REQUEST_RETRIES + 1) }

SearchPlans == { Plan(f, h) : f \in ApiFaults, h \in 0..2 }

NotCalled == [status |-> "idle", id |-> NoId, exc |-> "none", item_name |-> <<>>,
              searches |-> <<>>]

(***************************************************************************)
(* chunks and Importer._add_items_to_spotify.                              *)
(***************************************************************************)
\* the collection left in the order it was fetched in
Reverse_Kept(s) == s

\* items.reverse()
Reverse(s) == [k \in 1..Len(s) |-> s[Len(s) + 1 - k]]

\* range(0, len(lst), n) still has a value after k chunks were yielded
MoreChunks(lst, n, k) == k * n < Len(lst)

\* chunks with the slice one short: lst[i:i + n - 1]
NextChunk_Short(lst, n, k) == SubSeq(lst, k * n + 1, Min(k * n + n - 1, Len(lst)))

\* lst[i:i + n] for i = k * n: the chunk yielded after k chunks
NextChunk(lst, n, k) == SubSeq(lst, k * n + 1, Min(k * n + n, Len(lst)))

\* the section of Importer.not_imported a driver reports to: its own, or
\* playlist.title for the playlist at hand
Section(cat) ==
    CASE cat = "likes" -> "Likes" [] cat = "albums" -> "Albums" [] cat = "artists" -> "Artists"
      [] cat = "playlists" -> library.playlists[playlist.p].title

\* the destination call of the driver's save callback
SaveOp(cat) ==
    CASE cat = "likes" -> "current_user_saved_tracks_add"
      [] cat = "albums" -> "current_user_saved_albums_add"
      [] cat = "artists" -> "user_follow_artists"
      [] cat = "playlists" -> "user_playlist_add_tracks"

\* the id user_playlist_create answers with for the n-th playlist it creates
PlaylistId(n) == [playlist |-> n]

\* no playlist: the saves of likes, albums and artists name none
NoPlaylist == PlaylistId(0)

\* the playlist the driver's save callback writes to: spotify_playlist_id
Target(cat) == IF cat = "playlists" THEN playlist.id ELSE NoPlaylist

\* tracks: the full tracks of the liked tracks that have an album_id
LikedTracks(likes_tracks) ==
    LET kept == SelectSeq(likes_tracks, LAMBDA track : track.album_id)
    IN  [k \in 1..Len(kept) |-> kept[k].item]

\* [album.album for album in likes_albums], [artist.artist for artist in likes_artists]
LikedObjects(likes) == [k \in 1..Len(likes) |-> likes[k].item]

\* the collection a driver hands to _add_items_to_spotify
Fetched(cat, likes) == IF cat = "likes" THEN LikedTracks(likes) ELSE LikedObjects(likes)

\* handle_spotify_exception(<the driver's bulk write>)(chunk)
SaveCall(faults) == RunWrapper(NewCall, faults \o <<Return(<<>>)>>)

\* the availability flag not looked at
Available_Ignored(item) == TRUE

\* if item.available
Available(item) == item.available

\* item.title can be read: a Track and an Album have a title, an Artist has a name
HasTitle(item) == "title" \in DOMAIN item

\* The deterministic catalog: it knows every query but those ending in 7.
Catalogued(query) == query[Len(query)] # "7"

CatalogPlan(query) == Plan(<<>>, IF Catalogued(query) THEN 1 ELSE 0)

\* The pairs of plans the stub may follow for the searches of one item.
PlansFor(mode, item) ==
    CASE mode = "any" -> SearchPlans \X SearchPlans
      [] mode = "hit" -> { <<Plan(<<>>, 1), Plan(<<>>, 1)>> }
      [] mode = "catalog" ->
            { <<CatalogPlan(FirstQuery(item)),
                IF Len(ArtistsOf(item)) > 0 THEN CatalogPlan(FallbackQuery(item))
                ELSE Plan(<<>>, 0)>> }

\* the loop over the chunks entered as soon as an id was resolved
AfterItem_SavesEarly(acc) ==
    IF MoreChunks(acc, ChunkSize, 0) THEN "save"
    ELSE IF i + 1 <= Len(items) THEN "resolve" ELSE "done"

\* what the loop does after the item at position i: the next item, or the
\* for loop over chunks(spotify_items, 50), which ends at once on an empty list
AfterItem(acc) ==
    IF i + 1 <= Len(items) THEN "resolve"
    ELSE IF MoreChunks(acc, ChunkSize, 0) THEN "save" ELSE "done"

\* The entry of a driver up to the for loop of _add_items_to_spotify:
\* the section is created empty, the collection fetched and reversed.
Enter(cat) ==
    /\ pc = "start"
    /\ category = cat
    /\ not_imported' = [sec \in DOMAIN not_imported \cup {Section(cat)} |->
                           IF sec = Section(cat) THEN <<>> ELSE not_imported[sec]]
    /\ items' = Reverse(Fetched(cat, source))
    /\ i' = 1
    /\ spotify_items' = <<>>
    /\ pc' = IF Fetched(cat, source) = <<>> THEN "done" ELSE "resolve"
    /\ UNCHANGED <<wvars, rvars, mvars, category, strict_search, stub, source, resolved,
                   save_calls, saved, raised>>

import_likes == Enter("likes")

import_albums == Enter("albums")

import_artists == Enter("artists")

\* for item in items: an item that is not available is passed over
SkipItem ==
    /\ pc = "resolve"
    /\ ~Available(items[i])
    /\ i' = i + 1
    /\ pc' = AfterItem(spotify_items)
    /\ UNCHANGED <<wvars, rvars, mvars, category, strict_search, stub, source, items,
                   spotify_items, not_imported, resolved, save_calls, saved, raised>>

\* what the try statement around _import_item(item) does with its outcome:
\* "append" the id, record the item as "unmatched" under a name, or "raise"
Handle(item, out) ==
    CASE out.status = "returned" ->
            [do |-> "append", name |-> <<>>, exc |-> "none"]
      [] out.exc = "NotFoundException" ->
            [do |-> "unmatched", name |-> out.item_name, exc |-> "none"]
      [] out.exc = "SpotifyException" ->
            IF HasTitle(item)
            THEN [do |-> "unmatched", name |-> item.title, exc |-> "none"]
            ELSE [do |-> "raise", name |-> <<>>, exc |-> "AttributeError"]
      [] OTHER ->
            [do |-> "raise", name |-> <<>>, exc |-> out.exc]

\* for item in items: one available item is resolved
ResolveItem ==
    /\ pc = "resolve"
    /\ Available(items[i])
    /\ \E plans \in PlansFor(stub, items[i]) :
         LET out == ImportItem(items[i], strict_search, plans[1], plans[2])
             h == Handle(items[i], out)
             acc == IF h.do = "append" THEN Append(spotify_items, out.id)
                    ELSE spotify_items
         IN  /\ resolved' = Append(resolved, [pos |-> i, exc |-> out.exc, id |-> out.id])
             /\ spotify_items' = acc
             /\ not_imported' =
                    IF h.do = "unmatched"
                    THEN [not_imported EXCEPT ![Section(category)] = Append(@, h.name)]
                    ELSE not_imported
             /\ IF h.do = "raise"
                THEN /\ pc' = "failed"
                     /\ raised' = h.exc
                     /\ i' = i
                ELSE /\ pc' = AfterItem(acc)
                     /\ raised' = raised
                     /\ i' = i + 1
    /\ UNCHANGED <<wvars, rvars, mvars, category, strict_search, stub, source, items,
                   save_calls, saved>>

\* the loop over the chunks going on after a failed save
AfterSave_Caught(call, k) ==
    IF MoreChunks(spotify_items, ChunkSize, k) THEN "save" ELSE "done"

\* what the for loop over the chunks does when save_items_callback ends
AfterSave(call, k) ==
    IF call.status = "raised" THEN "failed"
    ELSE IF MoreChunks(spotify_items, ChunkSize, k) THEN "save" ELSE "done"

\* for chunk in chunks(spotify_items, 50): save_items_callback(self, chunk)
SaveChunk ==
    /\ pc = "save"
    /\ LET k == Len(save_calls)
           chunk == [op |-> SaveOp(category), target |-> Target(category),
                     ids |-> NextChunk(spotify_items, ChunkSize, k)]
       IN  \E faults \in ApiFaults :
             LET call == SaveCall(faults) IN
             /\ save_calls' = Append(save_calls, chunk)
             /\ saved' = IF call.status = "returned" THEN Append(saved, chunk) ELSE saved
             /\ pc' = AfterSave(call, k + 1)
             /\ raised' = IF call.status = "raised" THEN call.exc.kind ELSE raised
    /\ UNCHANGED <<wvars, rvars, mvars, category, strict_search, stub, source, items, i,
                   spotify_items, not_imported, resolved>>

(***************************************************************************)
(* The inputs: what the source API returns and how the stub answers.       *)
(***************************************************************************)
SeqsUpTo(S, n) == UNION { [1..k -> S] : k \in 0..n }

\* An entry of users_likes_tracks().tracks, users_likes_albums() or
\* users_likes_artists(): the liked object and whether it carries an album_id.
Like(item, album_id) == [item |-> item, album_id |-> album_id]

ShortLikes(cat) ==
    CASE cat = "likes" ->
            { Like(Track(<<<<"X">>>>, <<"A">>, TRUE), TRUE),
              Like(Track(<<<<"Y">>, <<"Z">>>>, <<"B">>, TRUE), TRUE),
              Like(Track(<<<<"X">>>>, <<"C">>, FALSE), TRUE),
              Like(Track(<<<<"X">>>>, <<"D">>, TRUE), FALSE) }
      [] cat = "albums" ->
            { Like(Album(<<<<"X">>>>, <<"A">>, TRUE), TRUE),
              Like(Album(<<<<"Y">>, <<"Z">>>>, <<"B">>, TRUE), TRUE),
              Like(Album(<<<<"X">>>>, <<"C">>, FALSE), TRUE) }
      [] cat = "artists" ->
            { Like(Artist(<<"X">>, TRUE), TRUE),
              Like(Artist(<<"Y">>, TRUE), TRUE),
              Like(Artist(<<"Z">>, FALSE), TRUE) }

\* The k-th entry of a long collection: every fifth has two artists, and with
\* gaps every fourth is not available.
LongLike(cat, k, gaps) ==
    LET artists == IF k % 5 = 0 THEN <<<<"Y">>, <<"Z">>>> ELSE <<<<"X">>>>
        available == ~gaps \/ k % 4 # 0
    IN  CASE cat = "likes" -> Like(Track(artists, Str(k), available), TRUE)
          [] cat = "albums" -> Like(Album(artists, Str(k), available), TRUE)
          [] cat = "artists" -> Like(Artist(<<"N">> \o Str(k), available), TRUE)

LongLens == { ChunkSize - 1, ChunkSize, ChunkSize + 1, MaxLong }

Categories == { "likes", "albums", "artists" }

\* The resolver's and the wrapper's variables while another specification runs.
ResolverIdle ==
    /\ r_item = RawQuery(<<>>)
    /\ r_strict = FALSE
    /\ r_plans = <<Plan(<<>>, 0), Plan(<<>>, 0)>>
    /\ r_out = NotCalled

\* sys.argv gave no value for the option (None), or gave this text
NoArg == [given |-> FALSE, text |-> <<>>]

Arg(text) == [given |-> TRUE, text |-> text]

\* The program's variables while a specification of one of its parts runs.
MainIdle ==
    /\ arguments = [token |-> NoArg, json_path |-> NoArg, ignore |-> <<>>]
    /\ library = [likes |-> <<>>, playlists |-> <<>>, albums |-> <<>>, artists |-> <<>>,
                  json |-> <<>>]
    /\ main = [pc |-> "off", importing_items |-> <<>>, d |-> 1, invoked |-> <<>>,
               error |-> "none", api |-> <<>>, yandex_client |-> "None",
               reported |-> FALSE, report |-> [sec \in {} |-> <<>>]]
    /\ playlist = [p |-> 0, id |-> NoPlaylist, created |-> <<>>]
    /\ json_not_imported = <<>>

PipelineIdle ==
    /\ category = "likes"
    /\ strict_search = FALSE
    /\ stub = "hit"
    /\ source = <<>>
    /\ items = <<>>
    /\ i = 1
    /\ spotify_items = <<>>
    /\ not_imported = [sec \in {} |-> <<>>]
    /\ resolved = <<>>
    /\ save_calls = <<>>
    /\ saved = <<>>
    /\ pc = "off"
    /\ raised = "none"

(***************************************************************************)
(* Spec: one category driver and its run of _add_items_to_spotify.         *)
(***************************************************************************)
Init ==
    /\ w = NewCall
    /\ ResolverIdle
    /\ MainIdle
    /\ category \in Categories
    /\ strict_search \in BOOLEAN
    /\ \/ /\ stub = "any"
          /\ source \in SeqsUpTo(ShortLikes(category), MaxLen)
       \/ /\ stub \in {"hit", "catalog"}
          /\ \E n \in LongLens, gaps \in BOOLEAN :
                source = [k \in 1..n |-> LongLike(category, k, gaps)]
    /\ items = <<>>
    /\ i = 1
    /\ spotify_items = <<>>
    /\ not_imported = [sec \in {} |-> <<>>]
    /\ resolved = <<>>
    /\ save_calls = <<>>
    /\ saved = <<>>
    /\ pc = "start"
    /\ raised = "none"

Next ==
    \/ import_likes
    \/ import_albums
    \/ import_artists
    \/ SkipItem
    \/ ResolveItem
    \/ SaveChunk

Spec == Init /\ [][Next]_vars

(***************************************************************************)
(* SpecWrapper: wrapped calls against a function that answers anything.    *)
(***************************************************************************)
InitWrapper ==
    /\ w = NewCall
    /\ ResolverIdle
    /\ MainIdle
    /\ PipelineIdle

NextWrapper ==
    \/ WrapperCall
    \/ WrapperInvoke

SpecWrapper == InitWrapper /\ [][NextWrapper]_vars

(***************************************************************************)
(* SpecResolver: _import_item on one item, the stub following two plans.   *)
(***************************************************************************)
ShortText == <<"T">>

DashedText == <<"a", "-", " ", "b">>

LongText == Repeat("T", LongTitle)

ArtistLists ==
    { <<>>, <<<<"X">>>>, <<<<"Y">>, <<"Z">>>>, <<<<"A">>, <<"B">>, <<"C">>>>,
      <<Repeat("N", LongTitle), <<"Z">>>> }

Texts == { ShortText, DashedText, LongText }

ResolverItems ==
    { Track(a, t, TRUE) : a \in ArtistLists, t \in Texts }
      \cup { Album(a, t, TRUE) : a \in ArtistLists, t \in Texts }
      \cup { Artist(t, TRUE) : t \in Texts }
      \cup { RawQuery(t) : t \in Texts }

InitResolver ==
    /\ w = NewCall
    /\ PipelineIdle
    /\ MainIdle
    /\ r_item \in ResolverItems
    /\ r_strict \in BOOLEAN
    /\ r_plans \in SearchPlans \X SearchPlans
    /\ r_out = NotCalled

\* _import_item(item)
import_item ==
    /\ r_out.status = "idle"
    /\ r_out' = ImportItem(r_item, r_strict, r_plans[1], r_plans[2])
    /\ UNCHANGED <<wvars, r_item, r_strict, r_plans, pvars, mvars>>

NextResolver == import_item

SpecResolver == InitResolver /\ [][NextResolver]_vars

(***************************************************************************)
(* The program: __main__, Importer.__init__, import_all, the playlist      *)
(* driver and import_from_json.  main.pc is where the program is; the      *)
(* pipeline's pc is "off" between two runs of _add_items_to_spotify.       *)
(***************************************************************************)
\* arguments.x is None
IsNone(a) == ~a.given

\* if arguments.x: the option was given a text that is not empty
Truthy(a) == a.given /\ a.text # <<>>

\* the check that asks for one of the two options and not both
MissingInput_Exclusive(args) == IsNone(args.token) = IsNone(args.json_path)

\* arguments.token is None and arguments.json_path is None
MissingInput(args) == IsNone(args.token) /\ IsNone(args.json_path)

\* the keys of Importer._importing_items, in the order they are inserted in
Drivers == <<"likes", "playlists", "albums", "artists">>

RECURSIVE DeleteAll(_, _)
\* for item in ignore_list: del self._importing_items[item]
\* the keys that are left, or KeyError at a key that is not (or no longer) there
DeleteAll(keys, ignore) ==
    IF ignore = <<>> THEN [ok |-> TRUE, keys |-> keys]
    ELSE IF \E k \in 1..Len(keys) : keys[k] = Head(ignore)
    THEN DeleteAll(SelectSeq(keys, LAMBDA key : key # Head(ignore)), Tail(ignore))
    ELSE [ok |-> FALSE, keys |-> keys]

\* handle_spotify_exception(self.spotify_client.me)()
MeCall(faults) == RunWrapper(NewCall, faults \o <<Return(<<"m", "e">>)>>)

\* handle_spotify_exception(self.spotify_client.user_playlist_create)(user, title):
\* the destination answers with the id of a new playlist
CreateCall(faults) ==
    RunWrapper(NewCall, faults \o <<Return(PlaylistId(Len(playlist.created) + 1))>>)

\* handle_spotify_exception(self.spotify_client.playlist_upload_cover_image)(id, image)
UploadCall(faults) == RunWrapper(NewCall, faults \o <<Return(<<>>)>>)

\* An entry of playlist.fetch_tracks(): the full track (None in a playlist
\* that is collective), its id and whether it carries an album_id.
NoTrack == [kind |-> "none"]

TrackShort(track, track_id, album_id) ==
    [track |-> track, track_id |-> track_id, album_id |-> album_id]

\* self.yandex_client.tracks(ids): the full tracks of these ids
YandexTracks(ids) == [k \in 1..Len(ids) |-> Track(<<<<"R">>>>, ids[k], TRUE)]

\* the collective playlist re-fetched without the album_id filter
PlaylistTracks_NoFilter(pl) ==
    IF ~pl.collective THEN [k \in 1..Len(pl.tracks) |-> pl.tracks[k].track]
    ELSE IF pl.tracks # <<>>
    THEN YandexTracks([k \in 1..Len(pl.tracks) |-> pl.tracks[k].track_id])
    ELSE <<>>

\* tracks, from playlist_tracks = playlist.fetch_tracks()
PlaylistTracks(pl) ==
    IF ~pl.collective THEN [k \in 1..Len(pl.tracks) |-> pl.tracks[k].track]
    ELSE IF pl.tracks # <<>>
    THEN LET kept == SelectSeq(pl.tracks, LAMBDA track : track.album_id)
         IN  YandexTracks([k \in 1..Len(kept) |-> kept[k].track_id])
    ELSE <<>>

\* the query with a dash between the artist and the track
JsonQuery_Dashed(track) == track.artist \o <<" ", "-", " ">> \o track.track

\* f'{track["artist"]} {track["track"]}'
JsonQuery(track) == track.artist \o <<" ">> \o track.track

\* what the try statement of import_from_json does with the outcome of
\* _import_item(query)
JsonHandle(query, out) ==
    CASE out.status = "returned" ->
            [do |-> "append", name |-> <<>>, exc |-> "none"]
      [] out.exc = "NotFoundException" ->
            [do |-> "unmatched", name |-> out.item_name, exc |-> "none"]
      [] out.exc = "SpotifyException" ->
            [do |-> "unmatched", name |-> query, exc |-> "none"]
      [] OTHER ->
            [do |-> "raise", name |-> <<>>, exc |-> out.exc]

\* __main__ up to the check of the arguments: the auth manager is built (no
\* request is sent) and ValueError raised when neither option was given; the
\* except clause logs it and the program ends.
Preflight ==
    /\ main.pc = "main"
    /\ main' = IF MissingInput(arguments)
               THEN [main EXCEPT !.pc = "exit", !.error = "ValueError"]
               ELSE [main EXCEPT !.pc = "clients"]
    /\ UNCHANGED <<wvars, rvars, pvars, arguments, library, playlist, json_not_imported>>

\* The clients: spotipy.Spotify(...), and Client(token).init() if a token
\* that is not empty was given.
MakeClients ==
    /\ main.pc = "clients"
    /\ main' = IF Truthy(arguments.token)
               THEN [main EXCEPT !.pc = "construct", !.yandex_client = "Client",
                                 !.api = Append(@, "Client.init")]
               ELSE [main EXCEPT !.pc = "construct"]
    /\ UNCHANGED <<wvars, rvars, pvars, arguments, library, playlist, json_not_imported>>

\* Importer.__init__, and the choice between import_from_json and import_all.
\* strict_search stays what -S gives by default, False.
Construct ==
    /\ main.pc = "construct"
    /\ LET left == DeleteAll(Drivers, arguments.ignore) IN
       IF ~left.ok
       THEN main' = [main EXCEPT !.pc = "exit", !.error = "KeyError"]
       ELSE \E faults \in ApiFaults :
              LET me == MeCall(faults) IN
              main' = IF me.status = "raised"
                      THEN [main EXCEPT !.pc = "exit", !.error = me.exc.kind,
                                        !.importing_items = left.keys,
                                        !.api = Append(@, "me")]
                      ELSE [main EXCEPT !.pc = IF Truthy(arguments.json_path)
                                               THEN "json" ELSE "import_all",
                                        !.importing_items = left.keys,
                                        !.api = Append(@, "me")]
    /\ UNCHANGED <<wvars, rvars, pvars, arguments, library, playlist, json_not_imported>>

\* import_all: the next value of self._importing_items is called.  Without
\* a source client the driver ends with AttributeError at its first request,
\* which the drivers of likes, albums and artists send after they have
\* created their section.
import_all ==
    /\ main.pc = "import_all"
    /\ pc \in {"off", "done"}
    /\ main.d <= Len(main.importing_items)
    /\ LET key == main.importing_items[main.d] IN
       /\ category' = key
       /\ IF main.yandex_client = "None"
          THEN /\ main' = [main EXCEPT !.pc = "exit", !.error = "AttributeError",
                                       !.invoked = Append(@, key), !.d = @ + 1]
               /\ not_imported' =
                     IF key = "playlists" THEN not_imported
                     ELSE [sec \in DOMAIN not_imported \cup {Section(key)} |->
                             IF sec = Section(key) THEN <<>> ELSE not_imported[sec]]
               /\ UNCHANGED <<pc, source, playlist, resolved, save_calls, saved>>
          ELSE /\ main' = [main EXCEPT !.pc = IF key = "playlists" THEN "playlists"
                                              ELSE "import_all",
                                       !.invoked = Append(@, key), !.d = @ + 1]
               /\ pc' = IF key = "playlists" THEN "off" ELSE "start"
               /\ source' = IF key = "playlists" THEN <<>> ELSE library[key]
               /\ playlist' = IF key = "playlists" THEN [playlist EXCEPT !.p = 0]
                              ELSE playlist
               /\ resolved' = <<>>
               /\ save_calls' = <<>>
               /\ saved' = <<>>
               /\ not_imported' = not_imported
    /\ UNCHANGED <<wvars, rvars, strict_search, stub, items, i, spotify_items, raised,
                   arguments, library, json_not_imported>>

\* import_all after the last driver: self.print_not_imported()
print_not_imported ==
    /\ main.pc = "import_all"
    /\ pc \in {"off", "done"}
    /\ main.d > Len(main.importing_items)
    /\ main' = [main EXCEPT !.pc = "exit", !.reported = TRUE, !.report = not_imported]
    /\ UNCHANGED <<wvars, rvars, pvars, arguments, library, playlist, json_not_imported>>

\* import_playlists, one pass of its loop up to the for loop of
\* _add_items_to_spotify: the destination playlist is created, the cover
\* uploaded if it is a picture, the section created empty and the tracks
\* fetched and reversed.  After the last playlist the driver returns.
import_playlists ==
    /\ main.pc = "playlists"
    /\ pc \in {"off", "done"}
    /\ IF playlist.p = Len(library.playlists)
       THEN /\ main' = [main EXCEPT !.pc = "import_all"]
            /\ pc' = "off"
            /\ UNCHANGED <<playlist, not_imported, items, i, spotify_items, resolved,
                           save_calls, saved, raised>>
       ELSE LET pl == library.playlists[playlist.p + 1] IN
            \E faults \in ApiFaults, image \in ApiFaults :
              LET create == CreateCall(faults)
                  upload == IF pl.cover = "pic" THEN UploadCall(image)
                            ELSE UploadCall(<<>>)
                  tracks == PlaylistTracks(pl)
              IN  /\ main' = main
                  /\ resolved' = <<>>
                  /\ save_calls' = <<>>
                  /\ saved' = <<>>
                  /\ IF create.status = "raised"
                     THEN /\ pc' = "failed"
                          /\ raised' = create.exc.kind
                          /\ playlist' = [playlist EXCEPT !.p = @ + 1]
                          /\ UNCHANGED <<not_imported, items, i, spotify_items>>
                     ELSE /\ playlist' =
                                [p |-> playlist.p + 1, id |-> create.value,
                                 created |-> Append(playlist.created,
                                     [title |-> pl.title, id |-> create.value])]
                          /\ IF upload.status = "raised"
                             THEN /\ pc' = "failed"
                                  /\ raised' = upload.exc.kind
                                  /\ UNCHANGED <<not_imported, items, i, spotify_items>>
                             ELSE /\ not_imported' =
                                        [sec \in DOMAIN not_imported \cup {pl.title} |->
                                           IF sec = pl.title THEN <<>>
                                           ELSE not_imported[sec]]
                                  /\ items' = Reverse(tracks)
                                  /\ i' = 1
                                  /\ spotify_items' = <<>>
                                  /\ pc' = IF tracks = <<>> THEN "done" ELSE "resolve"
                                  /\ raised' = raised
    /\ UNCHANGED <<wvars, rvars, category, strict_search, stub, source, arguments,
                   library, json_not_imported>>

\* import_from_json up to its loop: the file is read, the lists are empty
import_from_json ==
    /\ main.pc = "json"
    /\ main' = [main EXCEPT !.pc = IF library.json = <<>> THEN "json_create"
                                   ELSE "json_resolve"]
    /\ items' = library.json
    /\ i' = 1
    /\ spotify_items' = <<>>
    /\ json_not_imported' = <<>>
    /\ UNCHANGED <<wvars, rvars, category, strict_search, stub, source, not_imported,
                   resolved, save_calls, saved, pc, raised, arguments, library, playlist>>

\* for track in tracks: one pair of the file is resolved
JsonTrack ==
    /\ main.pc = "json_resolve"
    /\ pc # "failed"
    /\ LET query == JsonQuery(items[i]) IN
       \E plans \in PlansFor(stub, RawQuery(query)) :
         LET out == ImportItem(RawQuery(query), strict_search, plans[1], plans[2])
             h == JsonHandle(query, out)
         IN  /\ resolved' = Append(resolved, [pos |-> i, exc |-> out.exc, id |-> out.id,
                                              searches |-> out.searches])
             /\ spotify_items' = IF h.do = "append" THEN Append(spotify_items, out.id)
                                 ELSE spotify_items
             /\ json_not_imported' = IF h.do = "unmatched"
                                     THEN Append(json_not_imported, h.name)
                                     ELSE json_not_imported
             /\ IF h.do = "raise"
                THEN /\ pc' = "failed"
                     /\ raised' = h.exc
                     /\ i' = i
                     /\ main' = main
                ELSE /\ pc' = pc
                     /\ raised' = raised
                     /\ i' = i + 1
                     /\ main' = [main EXCEPT !.pc = IF i + 1 <= Len(items)
                                                    THEN "json_resolve"
                                                    ELSE "json_create"]
    /\ UNCHANGED <<wvars, rvars, category, strict_search, stub, source, items,
                   not_imported, save_calls, saved, arguments, library, playlist>>

\* playlist = user_playlist_create(self.user, 'Imported from JSON')
JsonCreate ==
    /\ main.pc = "json_create"
    /\ pc # "failed"
    /\ \E faults \in ApiFaults :
         LET create == CreateCall(faults) IN
         IF create.status = "raised"
         THEN /\ pc' = "failed"
              /\ raised' = create.exc.kind
              /\ UNCHANGED <<main, playlist>>
         ELSE /\ playlist' = [playlist EXCEPT !.id = create.value,
                                 !.created = Append(@, [title |-> "Imported from JSON",
                                                        id |-> create.value])]
              /\ main' = [main EXCEPT !.pc = IF MoreChunks(spotify_items, ChunkSize, 0)
                                             THEN "json_save" ELSE "json_report"]
              /\ UNCHANGED <<pc, raised>>
    /\ UNCHANGED <<wvars, rvars, category, strict_search, stub, source, items, i,
                   spotify_items, not_imported, resolved, save_calls, saved, arguments,
                   library, json_not_imported>>

\* for chunk in chunks(spotify_tracks, 50):
\*     user_playlist_add_tracks(self.user, playlist['id'], chunk)
JsonSave ==
    /\ main.pc = "json_save"
    /\ pc # "failed"
    /\ LET k == Len(save_calls)
           chunk == [op |-> "user_playlist_add_tracks", target |-> playlist.id,
                     ids |-> NextChunk(spotify_items, ChunkSize, k)]
       IN  \E faults \in ApiFaults :
             LET call == SaveCall(faults) IN
             /\ save_calls' = Append(save_calls, chunk)
             /\ saved' = IF call.status = "returned" THEN Append(saved, chunk) ELSE saved
             /\ pc' = IF call.status = "raised" THEN "failed" ELSE pc
             /\ raised' = IF call.status = "raised" THEN call.exc.kind ELSE raised
             /\ main' = IF call.status = "raised" THEN main
                        ELSE [main EXCEPT !.pc =
                                 IF MoreChunks(spotify_items, ChunkSize, k + 1)
                                 THEN "json_save" ELSE "json_report"]
    /\ UNCHANGED <<wvars, rvars, category, strict_search, stub, source, items, i,
                   spotify_items, not_imported, resolved, arguments, library, playlist,
                   json_not_imported>>

\* the section import_from_json logs its unmatched queries under
JsonSection == "Not imported tracks"

\* logger.error('Not imported tracks:') and the tracks of not_imported
JsonReport ==
    /\ main.pc = "json_report"
    /\ main' = [main EXCEPT !.pc = "exit", !.reported = TRUE,
                            !.report = [sec \in {JsonSection} |-> json_not_imported]]
    /\ UNCHANGED <<wvars, rvars, pvars, arguments, library, playlist, json_not_imported>>

\* except Exception as e: logger.error(...): an exception that left an
\* import ends the program, with no report
Crash ==
    /\ main.pc \in {"import_all", "playlists", "json_resolve", "json_create", "json_save"}
    /\ pc = "failed"
    /\ main' = [main EXCEPT !.pc = "exit", !.error = raised]
    /\ UNCHANGED <<wvars, rvars, pvars, arguments, library, playlist, json_not_imported>>

\* The values an option may have.
ArgValues == { NoArg, Arg(<<>>), Arg(<<"x">>) }

\* -i: any list of categories, a category may be named more than once
IgnoreLists == SeqsUpTo({ Drivers[k] : k \in 1..Len(Drivers) }, MaxIgnore)

\* The user's library: a liked track the catalog does not know, one that is
\* not available and one it knows; an album and an artist it does not know.
HomeLikes ==
    <<Like(Track(<<<<"X">>>>, <<"7">>, TRUE), TRUE),
      Like(Track(<<<<"X">>>>, <<"1">>, FALSE), TRUE),
      Like(Track(<<<<"X">>>>, <<"2">>, TRUE), TRUE)>>

HomeAlbums == <<Like(Album(<<<<"X">>>>, <<"7">>, TRUE), TRUE)>>

HomeArtists == <<Like(Artist(<<"N", "7">>, TRUE), TRUE)>>

\* A playlist of one's own with a picture, a collective one named like the
\* section of the liked tracks, and an empty collective one named like the
\* first.
MixPlaylist ==
    [title |-> "Mix", collective |-> FALSE, cover |-> "pic",
     tracks |-> <<TrackShort(Track(<<<<"X">>>>, <<"3">>, TRUE), <<"3">>, TRUE),
                  TrackShort(Track(<<<<"X">>>>, <<"4", "7">>, TRUE), <<"4", "7">>, FALSE)>>]

TeamPlaylist ==
    [title |-> "Likes", collective |-> TRUE, cover |-> "mosaic",
     tracks |-> <<TrackShort(NoTrack, <<"5">>, TRUE),
                  TrackShort(NoTrack, <<"6">>, FALSE),
                  TrackShort(NoTrack, <<"5", "7">>, TRUE)>>]

EmptyPlaylist ==
    [title |-> "Mix", collective |-> TRUE, cover |-> "mosaic", tracks |-> <<>>]

PlaylistLists == SeqsUpTo({MixPlaylist, TeamPlaylist, EmptyPlaylist}, MaxPlaylists)

Home(playlists, json) ==
    [likes |-> HomeLikes, playlists |-> playlists, albums |-> HomeAlbums,
     artists |-> HomeArtists, json |-> json]

\* The pairs of a JSON file.
JsonPairs == { [artist |-> <<"A">>, track |-> <<"T">>],
               [artist |-> <<"B">>, track |-> <<"U", "7">>] }

JsonPair(k) == [artist |-> <<"A">>, track |-> Str(k)]

(***************************************************************************)
(* SpecMain: the program from its command line to its end.                 *)
(***************************************************************************)
InitMain ==
    /\ w = NewCall
    /\ ResolverIdle
    /\ category = "likes"
    /\ strict_search = FALSE
    /\ source = <<>>
    /\ items = <<>>
    /\ i = 1
    /\ spotify_items = <<>>
    /\ not_imported = [sec \in {} |-> <<>>]
    /\ resolved = <<>>
    /\ save_calls = <<>>
    /\ saved = <<>>
    /\ pc = "off"
    /\ raised = "none"
    /\ main = [pc |-> "main", importing_items |-> <<>>, d |-> 1, invoked |-> <<>>,
               error |-> "none", api |-> <<>>, yandex_client |-> "None",
               reported |-> FALSE, report |-> [sec \in {} |-> <<>>]]
    /\ playlist = [p |-> 0, id |-> NoPlaylist, created |-> <<>>]
    /\ json_not_imported = <<>>
    /\ \/ /\ arguments \in [token : {Arg(<<"x">>)}, json_path : {NoArg},
                            ignore : IgnoreLists]
          /\ library \in { Home(pls, <<>>) : pls \in PlaylistLists }
          /\ stub = "catalog"
       \/ /\ arguments \in [token : ArgValues, json_path : {NoArg, Arg(<<>>)},
                            ignore : {<<>>, Drivers}]
          /\ library = Home(<<MixPlaylist>>, <<>>)
          /\ stub = "catalog"
       \/ /\ arguments \in [token : ArgValues, json_path : {Arg(<<"x">>)},
                            ignore : {<<>>}]
          /\ \/ /\ library \in { Home(<<MixPlaylist>>, json) :
                                    json \in SeqsUpTo(JsonPairs, MaxLen) }
                /\ stub = "any"
             \/ /\ \E n \in {ChunkSize + 1, MaxLong} :
                      library = Home(<<MixPlaylist>>, [k \in 1..n |-> JsonPair(k)])
                /\ stub \in {"hit", "catalog"}

NextMain ==
    \/ Preflight
    \/ MakeClients
    \/ Construct
    \/ import_all
    \/ print_not_imported
    \/ import_likes
    \/ import_albums
    \/ import_artists
    \/ import_playlists
    \/ SkipItem
    \/ ResolveItem
    \/ SaveChunk
    \/ import_from_json
    \/ JsonTrack
    \/ JsonCreate
    \/ JsonSave
    \/ JsonReport
    \/ Crash

SpecMain == InitMain /\ [][NextMain]_vars

(***************************************************************************)
(* Properties of the batch ingestion pipeline (Spec).                      *)
(***************************************************************************)
RECURSIVE Concat(_)
\* the concatenation of a sequence of sequences
Concat(ss) == IF ss = <<>> THEN <<>> ELSE Head(ss) \o Concat(Tail(ss))

\* the ids of the chunks save_items_callback was invoked with, chunk by chunk
ChunksHanded == [k \in 1..Len(save_calls) |-> save_calls[k].ids]

CeilDiv(n, d) == (n + d - 1) \div d

\* the for loop over the items ran to its end
LoopOver == pc \in {"save", "done"} \/ (pc = "failed" /\ i > Len(items))

\* C1: when a run of _add_items_to_spotify ends normally with an accumulator
\* of n ids, save_batch was invoked exactly ceil(n / 50) times (never for
\* n = 0), every chunk but the last holds exactly 50 ids, the last between 1
\* and 50, and the chunks concatenated in call order are the accumulator;
\* 130 ids give the sizes 50, 50, 30.  While the run goes on, the chunks
\* handed over so far are the accumulator's first ids in its order.
C1_Batching ==
    LET n == Len(spotify_items)
        c == Len(save_calls)
        handed == Concat(ChunksHanded)
    IN  /\ handed = SubSeq(spotify_items, 1, Len(handed))
        /\ \A k \in 1..(c - 1) : Len(save_calls[k].ids) = 50
        /\ c > 0 => Len(save_calls[c].ids) \in 1..50
        /\ pc = "done" =>
              /\ c = CeilDiv(n, 50)
              /\ handed = spotify_items
              /\ n = 0 => save_calls = <<>>
              /\ n = 130 => [k \in 1..c |-> Len(save_calls[k].ids)] = <<50, 50, 30>>

\* C1 witness: 130 resolved ids were saved in three chunks.
C1_Witness ==
    /\ pc = "done"
    /\ Len(spotify_items) = 130
    /\ Len(saved) = 3
    /\ Len(saved[3].ids) = 30

\* the ids a search for the item can resolve it to: the first result of the
\* first query or of the fallback query
IdsOf(item) ==
    { SpotifyId(TypeOf(item), FirstQuery(item), 1) } \cup
    ( IF Len(ArtistsOf(item)) > 0
      THEN { SpotifyId(TypeOf(item), FallbackQuery(item), 1) } ELSE {} )

\* the log entries of the items that resolved, in the order they resolved
Successes == SelectSeq(resolved, LAMBDA e : e.exc = "none")

\* C2: the ids handed to save_batch, concatenated over the chunks, list the
\* resolved items in the reverse of the order the collection was fetched in:
\* the k-th resolved id belongs to the fetched item at the mirrored position,
\* the positions only grow, and at the end of a run every resolved id was
\* handed over.
C2_ReverseOrder ==
    LET fetched == Fetched(category, source)
        n == Len(fetched)
        ok == Successes
        handed == Concat(ChunksHanded)
    IN  pc # "start" =>
          /\ \A k \in 1..Len(resolved) :
                /\ resolved[k].exc = "none" =>
                      resolved[k].id \in IdsOf(fetched[n + 1 - resolved[k].pos])
                /\ k > 1 => resolved[k - 1].pos < resolved[k].pos
          /\ handed = SubSeq([k \in 1..Len(ok) |-> ok[k].id], 1, Len(handed))
          /\ pc = "done" => Len(handed) = Len(ok)

\* C2 witness: two different items resolved and the id of the one fetched
\* last was saved first.
C2_Witness ==
    LET fetched == Fetched(category, source)
        handed == Concat(ChunksHanded)
    IN  /\ pc = "done"
        /\ Len(fetched) = 2
        /\ Len(handed) = 2
        /\ handed[1] # handed[2]
        /\ handed[1] \in IdsOf(fetched[2])
        /\ handed[2] \in IdsOf(fetched[1])

\* the positions of items for which _import_item was invoked
Attempted == { resolved[j].pos : j \in 1..Len(resolved) }

\* C3: _import_item is invoked at most once per item and never for an item
\* whose availability flag is unset; once the loop over the items has run to
\* its end it was invoked exactly once for every available item; an item that
\* was not attempted adds neither an id nor an unmatched entry.
C3_AttemptedOnce ==
    LET flagged == { p \in 1..Len(items) : items[p].available }
        unmatched == IF Section(category) \in DOMAIN not_imported
                     THEN not_imported[Section(category)] ELSE <<>>
    IN  /\ Cardinality(Attempted) = Len(resolved)
        /\ Attempted \subseteq flagged
        /\ LoopOver => Attempted = flagged
        /\ Len(spotify_items) + Len(unmatched) <= Len(resolved)

\* C3 witness: a run that ended with an available item attempted and an
\* unavailable one passed over.
C3_Witness ==
    /\ pc = "done"
    /\ Len(items) = 2
    /\ ~items[1].available
    /\ items[2].available
    /\ Attempted = {2}

\* the name a failed resolution is recorded under: the display name carried
\* by NotFound, the item's raw title or name for another API error
ExpectedUnmatched(e) ==
    LET item == items[e.pos]
    IN  IF e.exc = "NotFoundException" THEN ItemName(item)
        ELSE IF IsArtist(item) THEN item.name ELSE item.title

C5_Inv ==
    LET c == Len(save_calls) IN
    /\ Len(saved) \in {c - 1, c} \cap (0..c)
    /\ saved = SubSeq(save_calls, 1, Len(saved))
    /\ Len(saved) < c =>
          /\ pc = "failed"
          /\ raised \in {"SpotifyException", "ReadTimeout"}
          /\ ~ENABLED SaveChunk

\* after a failed save_batch no step invokes save_batch or changes what is written
C5_Step == (Len(saved) < Len(save_calls)) => (save_calls' = save_calls /\ saved' = saved)

\* C5: a failure of save_batch for chunk k leaves _add_items_to_spotify as the
\* exception it is; the chunks before k stay written, chunk k is not, and
\* save_batch is not invoked for any later chunk.
C5_SaveFailurePropagates == []C5_Inv /\ [][C5_Step]_vars

\* C5 witness: the second of three chunks failed after the first was written.
C5_Witness ==
    /\ pc = "failed"
    /\ Len(spotify_items) > 2 * ChunkSize
    /\ Len(save_calls) = 2
    /\ Len(saved) = 1

\* C18: within one call of _add_items_to_spotify every search precedes the
\* first save of a batch: an item is resolved only while nothing was handed
\* to the save callback, a batch is handed over only when the loop over the
\* items is over, and when the resolution ends with the fatal read-timeout
\* (or any other exception) no id of the collection was written.
C18_TwoPhases ==
    [][/\ resolved' # resolved => (save_calls = <<>> /\ save_calls' = <<>>)
       /\ save_calls' # save_calls =>
             /\ i > Len(items)
             /\ resolved' = resolved
             /\ spotify_items' = spotify_items
       /\ (pc' = "failed" /\ i' <= Len(items')) =>
             (save_calls' = <<>> /\ saved' = <<>>)]_vars

\* C18 witness: the resolution was aborted by the fatal read-timeout after
\* an id had been resolved, and nothing was written.
C18_Witness ==
    /\ pc = "failed"
    /\ raised = "ReadTimeout"
    /\ i <= Len(items)
    /\ spotify_items # <<>>
    /\ save_calls = <<>>
    /\ saved = <<>>

(***************************************************************************)
(* Properties of handle_spotify_exception (SpecWrapper).                   *)
(***************************************************************************)
IsTimeout(resp) == resp.kind = "ReadTimeout"

Is429(resp) == resp.kind = "SpotifyException" /\ resp.http_status = 429

IsOtherError(resp) == resp.kind = "SpotifyException" /\ resp.http_status # 429

\* the positions of the wrapped call's invocations that ended as P says
Where(P(_)) == { k \in 1..Len(w.served) : P(w.served[k]) }

\* C6: the wrapper propagates a read-timeout exactly when it is the sixth of
\* the call, so that a function that times out on every invocation is invoked
\* again exactly 5 times and then its timeout propagates; never is a
\* timeout followed by a sixth retry.
C6_TimeoutCap ==
    LET timeouts == Where(IsTimeout)
        retried == { k \in timeouts : k < Len(w.served) }
    IN  /\ Cardinality(retried) <= 5
        /\ (w.status = "raised" /\ w.exc = ReadTimeout) <=> Cardinality(timeouts) = 6
        /\ Cardinality(timeouts) = Len(w.served) =>
              /\ w.calls <= 6
              /\ w.calls = 6 => (w.status = "raised" /\ w.calls - 1 = 5)
              /\ w.calls < 6 => w.status = "running"

\* C6 witness: six invocations, all timed out, and the timeout propagated.
C6_Witness ==
    /\ w.status = "raised"
    /\ w.exc = ReadTimeout
    /\ w.calls = 6
    /\ Cardinality(Where(IsTimeout)) = 6

\* C7 as stated: every 429 failure is followed by one sleep.
C7_EveryRateLimitSleeps == Len(w.sleeps) = Cardinality(Where(Is429))

\* C7, amended: every 429 failure is followed by another invocation, after
\* one sleep of retry-after + 1 seconds when the response carries a
\* retry-after header and after no sleep when it carries none; no number of
\* 429 failures ends the call and none is surfaced; two 429 failures with a
\* retry-after header and then a success give 2 sleeps, 3 invocations and the
\* result.
C7_RateLimitAbsorbed ==
    LET limited == SelectSeq(w.served,
                             LAMBDA r : Is429(r) /\ "retry-after" \in DOMAIN r.headers)
    IN  /\ w.sleeps = [k \in 1..Len(limited) |-> IntOf(limited[k].headers["retry-after"]) + 1]
        /\ \A k \in Where(Is429) : k < Len(w.served) \/ w.status = "running"
        /\ w.status = "raised" => ~Is429(w.exc)
        /\ ( /\ w.status = "returned"
             /\ Len(w.served) = 3
             /\ Where(Is429) = {1, 2}
             /\ Len(limited) = 2 )
           => (Len(w.sleeps) = 2 /\ w.calls = 3 /\ w.value = w.served[3].value)

\* C7 witness: 429 with retry-after 12, 429 with retry-after 0, then success.
C7_Witness ==
    /\ w.status = "returned"
    /\ w.calls = 3
    /\ w.sleeps = <<13, 1>>
    /\ w.value = <<"ok">>

\* C8: an API error whose status is not 429 ends the call at its first
\* occurrence: it is the exception the wrapper raises, the function is not
\* invoked after it and it causes no sleep.
C8_OtherErrorsPropagate ==
    /\ \A k \in Where(IsOtherError) :
          /\ k = Len(w.served)
          /\ w.status = "raised"
          /\ w.exc = w.served[k]
    /\ Len(w.sleeps) <= Cardinality(Where(Is429))

\* C8 witness: a 500 that carries a retry-after header propagated at once.
C8_Witness ==
    /\ w.status = "raised"
    /\ w.exc = SpotifyException(500, RetryAfter(<<"3">>))
    /\ w.calls = 1
    /\ w.sleeps = <<>>

\* C20: rate-limit failures neither consume nor reset the read-timeout
\* budget: whatever the interleaving of 429 failures and timeouts, the retry
\* counter is 1 plus the number of timeouts retried so far in this call, the
\* timeout that propagates is the sixth timeout of the call, counted over
\* the whole call, and no earlier one propagates; a new wrapped call starts
\* with the counter at 1.
C20_IndependentBudgets ==
    LET timeouts == Where(IsTimeout)
        last == Len(w.served)
        fatal == w.status = "raised" /\ w.exc = ReadTimeout
    IN  /\ w.retry = 1 + Cardinality({ k \in timeouts : k < last \/ ~fatal })
        /\ fatal =>
              /\ last \in timeouts
              /\ Cardinality(timeouts) = MAX_REQUEST_RETRIES + 1
              /\ w.calls = MAX_REQUEST_RETRIES + 1 + Cardinality(Where(Is429))
        /\ (~fatal /\ w.status # "returned") => Cardinality(timeouts) <= MAX_REQUEST_RETRIES
        /\ w.calls = 0 => (w.retry = 1 /\ w.status = "running")

\* C20 witness: two 429 failures among six timeouts, the first of them after
\* one timeout and the second before the last: the eighth invocation's
\* timeout propagated.
C20_Witness ==
    /\ w.status = "raised"
    /\ w.exc = ReadTimeout
    /\ w.calls = 8
    /\ Where(Is429) = {2, 7}
    /\ Cardinality(Where(IsTimeout)) = 6

(***************************************************************************)
(* Properties of _import_item (SpecResolver).                              *)
(***************************************************************************)
\* the wrapped search that follows plan returns (its failures are absorbed)
PlanReturns(plan) == RunWrapper(NewCall, plan.faults \o <<Return(<<>>)>>).status = "returned"

\* C9: when the first search returns a non-empty list, _import_item returns
\* the id of its first result and searches once, whatever the kind of the
\* item, the strict mode and the number of artists.
C9_HitReturnsFirst ==
    (r_out.status # "idle" /\ PlanReturns(r_plans[1]) /\ r_plans[1].hits > 0) =>
        /\ r_out.status = "returned"
        /\ r_out.id = SpotifyId(TypeOf(r_item), FirstQuery(r_item), 1)
        /\ Len(r_out.searches) = 1

\* C9 witness: a track of two artists, strict mode off, two results.
C9_Witness ==
    /\ r_out.status = "returned"
    /\ r_item.kind = "track"
    /\ Len(r_item.artists) = 2
    /\ ~r_strict
    /\ r_plans[1].hits = 2
    /\ r_out.id.rank = 1

\* C10: after a first search with zero results a second search is issued if
\* and only if strict mode is off, the item is a Track or an Album and it has
\* more than one artist; its query is the first artist's name, a space and
\* the title; no second search is issued otherwise and never a third;
\* NotFound is raised, with the item's display name, exactly when the last
\* search issued returned zero results.
C10_Fallback ==
    LET n == Len(r_out.searches)
        empty1 == PlanReturns(r_plans[1]) /\ r_plans[1].hits = 0
        empty2 == PlanReturns(r_plans[2]) /\ r_plans[2].hits = 0
        eligible == /\ ~r_strict
                    /\ r_item.kind \in {"track", "album"}
                    /\ Len(r_item.artists) > 1
    IN  r_out.status # "idle" =>
          /\ n \in {1, 2}
          /\ n = 2 <=> (empty1 /\ eligible)
          /\ n = 2 =>
                r_out.searches[2] =
                    [query |-> r_item.artists[1] \o <<" ">> \o r_item.title,
                     type |-> r_item.kind]
          /\ (r_out.status = "raised" /\ r_out.exc = "NotFoundException")
                <=> ((n = 1 /\ empty1) \/ (n = 2 /\ empty2))
          /\ r_out.exc = "NotFoundException" => r_out.item_name = ItemName(r_item)

\* C10 witness: both searches for an album of three artists found nothing.
C10_Witness ==
    /\ r_out.status = "raised"
    /\ r_out.exc = "NotFoundException"
    /\ Len(r_out.searches) = 2
    /\ r_item.kind = "album"
    /\ Len(r_item.artists) = 3

\* C11: for a Track or an Album whose display name "{artists joined by
\* ", "} - {title}" is longer than 100 characters, the name _import_item
\* reports is exactly the first 100 characters of the display name and the
\* query of its search is that truncated string with every "- " removed;
\* neither is derived from the untruncated name.
C11_Truncation ==
    LET full == Join(<<",", " ">>, r_item.artists) \o <<" ", "-", " ">> \o r_item.title
        cut == SubSeq(full, 1, NameLimit)
    IN  (r_out.status # "idle" /\ r_item.kind \in {"track", "album"}
            /\ Len(full) > NameLimit) =>
          /\ Len(r_out.item_name) = NameLimit
          /\ r_out.item_name = cut
          /\ r_out.searches[1].query = ReplaceDashSpace(cut)
          /\ Len(r_out.searches[1].query) <= NameLimit

\* C11 witness: the track "Y, Z - TTT..." of a title far over the limit was
\* not found in strict mode: the name reported ends after 100 characters and
\* the query is that name without its "- ".
C11_Witness ==
    /\ r_out.status = "raised"
    /\ r_out.exc = "NotFoundException"
    /\ r_strict
    /\ r_item.kind = "track"
    /\ r_item.artists = <<<<"Y">>, <<"Z">>>>
    /\ Len(r_item.title) > NameLimit
    /\ r_out.item_name = <<"Y", ",", " ", "Z", " ", "-", " ">> \o Repeat("T", NameLimit - 7)
    /\ r_out.searches = <<[query |-> <<"Y", ",", " ", "Z", " ">> \o Repeat("T", NameLimit - 7),
                           type |-> "track"]>>

C19_QueryLength ==
    \A k \in 1..Len(r_out.searches) : Len(r_out.searches[k].query) <= NameLimit

(***************************************************************************)
(* Properties of the program (SpecMain).                                   *)
(***************************************************************************)
\* the categories named in the ignore list
Ignored == { arguments.ignore[k] : k \in 1..Len(arguments.ignore) }

\* the program ran import_all (and not import_from_json)
RanImportAll == main.reported /\ ~Truthy(arguments.json_path)

\* C13 as stated: for every ignore list whose entries are drawn from likes,
\* playlists, albums and artists, the construction of the Importer succeeds
\* and import_all invokes the drivers that are not ignored, each once, in
\* the order likes, playlists, albums, artists, and no ignored driver; the
\* report has no section for an ignored category.
C13_Orchestration ==
    LET expected == SelectSeq(Drivers, LAMBDA key : key \notin Ignored)
    IN  /\ main.error # "KeyError"
        /\ Len(main.invoked) <= Len(expected)
        /\ main.invoked = SubSeq(expected, 1, Len(main.invoked))
        /\ RanImportAll =>
              /\ main.invoked = expected
              /\ \A key \in Ignored \ {"playlists"} :
                    Section(key) \notin DOMAIN main.report

\* s1 is the beginning of s2
IsPrefix(s1, s2) == Len(s1) <= Len(s2) /\ SubSeq(s2, 1, Len(s1)) = s1

\* C14 as stated: the report, emitted after the last driver, lists by
\* section every name recorded as unmatched during the run: no entry
\* recorded for a section is lost or replaced by the import of another
\* section, and the report shows the sections as they are at the end.
C14_ReportComplete ==
    [][/\ \A sec \in DOMAIN not_imported :
             /\ sec \in DOMAIN not_imported'
             /\ IsPrefix(not_imported[sec], not_imported'[sec])
       /\ (main'.reported /\ ~Truthy(arguments.json_path)) =>
             /\ main'.report = not_imported'
             /\ main'.d > Len(main'.importing_items)]_vars

\* C15 as stated: the process goes on to an import only when exactly one of
\* -t and -j is supplied; when neither or both are supplied it fails with
\* the configuration error before any call of the source or the
\* destination API.
C15_ExactlyOne ==
    LET one == IsNone(arguments.token) # IsNone(arguments.json_path)
    IN  /\ main.pc # "main" => (main.error = "ValueError" <=> ~one)
        /\ main.error = "ValueError" => main.api = <<>>

\* C15 amended: the process fails with the configuration error, before any
\* call of the source or the destination API, exactly when neither -t nor
\* -j is supplied; when -j is supplied (and not empty) it runs the JSON
\* import, whether -t is supplied or not, and import_all otherwise.
C15_Preflight ==
    LET neither == IsNone(arguments.token) /\ IsNone(arguments.json_path)
    IN  /\ main.pc # "main" => (main.error = "ValueError" <=> neither)
        /\ main.error = "ValueError" =>
              /\ main.api = <<>>
              /\ main.yandex_client = "None"
              /\ main.invoked = <<>>
              /\ resolved = <<>>
              /\ save_calls = <<>>
              /\ playlist.created = <<>>
              /\ ~main.reported
        /\ main.pc \in {"json", "json_resolve", "json_create", "json_save", "json_report"}
              => Truthy(arguments.json_path)
        /\ main.pc \in {"import_all", "playlists"} =>
              (~Truthy(arguments.json_path) /\ ~neither)
        /\ main.invoked # <<>> => ~Truthy(arguments.json_path)
        /\ "Client.init" \in { main.api[k] : k \in 1..Len(main.api) }
              <=> (main.pc \notin {"main", "clients"} /\ Truthy(arguments.token))

\* C15 witness: with both -t and -j supplied the source client was
\* initialised and the JSON import ran to its report.
C15_Witness ==
    /\ Truthy(arguments.token)
    /\ Truthy(arguments.json_path)
    /\ main.pc = "exit"
    /\ main.error = "none"
    /\ main.reported
    /\ main.api = <<"Client.init", "me">>
    /\ Len(playlist.created) = 1
    /\ saved # <<>>

\* the log entries of the pairs that resolved, and of those that failed
\* with NotFound or another API error, in the order of the file
JsonResolved == SelectSeq(resolved, LAMBDA e : e.exc = "none")

JsonFailed == SelectSeq(resolved, LAMBDA e : e.exc \in {"NotFoundException", "SpotifyException"})

\* C16: for every list of pairs, the empty one and one of which nothing
\* resolves included, import_from_json resolves each pair once, in the order
\* of the file, with the query "{artist} {track}"; it creates one playlist,
\* named 'Imported from JSON', after the resolution; it adds the resolved
\* ids to that playlist in chunks of at most 50 ids whose concatenation is
\* the list of the resolved ids; a pair that fails with NotFound or another
\* API error that is not a rate limit is reported as unmatched under its
\* query and does not abort the import.
C16_JsonImport ==
    LET n == Len(library.json)
        over == main.pc \in {"json_create", "json_save", "json_report"} \/ main.reported
        handed == Concat(ChunksHanded)
    IN  Truthy(arguments.json_path) =>
          /\ \A k \in 1..Len(resolved) :
                /\ resolved[k].pos = k
                /\ resolved[k].searches =
                      <<[query |-> library.json[k].artist \o <<" ">> \o library.json[k].track,
                         type |-> "track"]>>
          /\ over => Len(resolved) = n
          /\ spotify_items = [k \in 1..Len(JsonResolved) |-> JsonResolved[k].id]
          /\ json_not_imported =
                [k \in 1..Len(JsonFailed) |-> JsonFailed[k].searches[1].query]
          /\ (pc = "failed" /\ main.pc = "json_resolve") =>
                resolved[Len(resolved)].exc \notin
                    {"none", "NotFoundException", "SpotifyException"}
          /\ playlist.created # <<>> =>
                /\ Len(resolved) = n
                /\ main.pc \notin {"json", "json_resolve", "json_create"}
                /\ Len(playlist.created) = 1
                /\ playlist.created[1].title = "Imported from JSON"
                /\ playlist.id = playlist.created[1].id
          /\ main.pc \in {"json_save", "json_report"} => playlist.created # <<>>
          /\ \A k \in 1..Len(save_calls) :
                /\ playlist.created # <<>>
                /\ save_calls[k].op = "user_playlist_add_tracks"
                /\ save_calls[k].target = playlist.created[1].id
                /\ Len(save_calls[k].ids) \in 1..ChunkSize
          /\ IsPrefix(handed, spotify_items)
          /\ main.reported =>
                /\ handed = spotify_items
                /\ Len(save_calls) = CeilDiv(Len(spotify_items), ChunkSize)
                /\ saved = save_calls
                /\ Len(playlist.created) = 1
                /\ main.report[JsonSection] = json_not_imported

\* C16 witness: a file of 130 pairs of which 13 were not found: the others
\* were added to the one playlist in three chunks and the 13 reported.
C16_Witness ==
    /\ main.reported
    /\ Truthy(arguments.json_path)
    /\ Len(library.json) = MaxLong
    /\ Len(json_not_imported) > ChunkSize \div 5
    /\ Len(saved) = CeilDiv(MaxLong - Len(json_not_imported), ChunkSize)
    /\ Len(saved) > 2
    /\ playlist.created = <<[title |-> "Imported from JSON", id |-> PlaylistId(1)]>>

\* C17: for every playlist of the source, one destination playlist of the
\* same title is created before any of its tracks is searched or added;
\* every add-tracks call made while the playlist is imported targets the id
\* that creation returned; the tracks fed to the pipeline are the
\* playlist's own tracks when it is not collective, the re-fetched full
\* tracks (of the entries that carry an album id) when it is collective and
\* not empty, and no track when it is collective and empty.
C17_PlaylistImport ==
    LET done == Len(playlist.created)
        running == pc \in {"resolve", "save", "done"}
    IN  (main.pc = "playlists" /\ playlist.p >= 1) =>
          LET pl == library.playlists[playlist.p]
              kept == { k \in 1..Len(pl.tracks) : pl.tracks[k].album_id }
              fed == Reverse(items)
          IN  /\ done \in {playlist.p - 1, playlist.p}
              /\ \A k \in 1..done :
                    /\ playlist.created[k].title = library.playlists[k].title
                    /\ \A j \in 1..done : (playlist.created[j].id = playlist.created[k].id) => j = k
              /\ (running \/ resolved # <<>> \/ save_calls # <<>>) =>
                    /\ done = playlist.p
                    /\ playlist.id = playlist.created[playlist.p].id
                    /\ pl.title \in DOMAIN not_imported
              /\ \A k \in 1..Len(save_calls) :
                    /\ save_calls[k].op = "user_playlist_add_tracks"
                    /\ save_calls[k].target = playlist.created[playlist.p].id
              /\ running =>
                    /\ ~pl.collective =>
                          /\ Len(fed) = Len(pl.tracks)
                          /\ \A k \in 1..Len(fed) : fed[k] = pl.tracks[k].track
                    /\ pl.collective =>
                          /\ Len(fed) = Cardinality(kept)
                          /\ \A k \in 1..Len(fed) :
                                /\ fed[k].kind = "track"
                                /\ \E j \in kept :
                                      /\ fed[k].title = pl.tracks[j].track_id
                                      /\ Cardinality({ m \in kept : m <= j }) = k
                    /\ (pl.collective /\ pl.tracks = <<>>) => items = <<>>

\* C17 witness: the second playlist, a collective one of three entries of
\* which two carry an album id, had its re-fetched tracks resolved and one
\* of them added to the second playlist created.
C17_Witness ==
    /\ main.pc = "playlists"
    /\ playlist.p = 2
    /\ library.playlists[2].collective
    /\ Len(library.playlists[2].tracks) = 3
    /\ Len(items) = 2
    /\ Len(saved) = 1
    /\ saved[1].target = PlaylistId(2)
    /\ Len(saved[1].ids) = 1

====
